---- MODULE Spec2Model ----
(***************************************************************************)
(* Application Default Credentials resolution (google_credentials.cc) and  *)
(* the compute-engine metadata response parsers                            *)
(* (compute_engine_credentials.cc) of google-cloud-cpp's storage oauth2    *)
(* library.                                                                *)
(*                                                                         *)
(* The resolver part models each public factory as one action that runs    *)
(* the whole function on an environment (environment variable, well-known  *)
(* path, file system, metadata service) and records the StatusOr it        *)
(* returns together with the log of collaborators it consulted.            *)
(***************************************************************************)
EXTENDS Integers, Sequences, FiniteSets, TLC

VARIABLES env, op, args, result, log, cache

vars == <<env, op, args, result, log, cache>>

(***************************************************************************)
(* google::cloud::optional<T>: <<>> is the empty optional, <<v>> holds v.  *)
(***************************************************************************)
NullOpt == <<>>
Some(v) == <<v>>
HasValue(o) == Len(o) > 0

(***************************************************************************)
(* StatusOr<T>.  A success holds a value; the value may be the null        *)
(* pointer.  An error holds a status code and a message.                   *)
(***************************************************************************)
NullPtr == [kind |-> "nullptr"]
OkOf(v) == [ok |-> TRUE, code |-> "kOk", message |-> "", value |-> v]
ErrorOf(c, m) == [ok |-> FALSE, code |-> c, message |-> m, value |-> NullPtr]
NoResult == [ok |-> FALSE, code |-> "none", message |-> "", value |-> NullPtr]

IsError(r) == ~r.ok
IsSentinel(r) == r.ok /\ r.value = NullPtr
IsCredential(r) == r.ok /\ r.value # NullPtr

kAdcLink ==
  "https://developers.google.com/identity/protocols/application-default-credentials"

(***************************************************************************)
(* Credential objects, by backend.                                         *)
(***************************************************************************)
ServiceAccountCredentials(info) == [kind |-> "ServiceAccount", info |-> info]
AuthorizedUserCredentials(info) == [kind |-> "AuthorizedUser", info |-> info]
ComputeEngineCredentials == [kind |-> "ComputeEngine"]

(***************************************************************************)
(* The environment.  File contents are described by what the parsers make  *)
(* of them: whether the text is JSON, the value of its "type" member       *)
(* (NoType when the member is absent), which backend's required members it *)
(* carries, whether the PKCS#12 reader accepts it, and the scopes/subject  *)
(* the file itself declares.                                               *)
(***************************************************************************)
EnvPath == "/env/key-file"
WellKnownPath == "/home/user/.config/gcloud/application_default_credentials.json"
MissingPath == "/no/such/file"
Paths == {EnvPath, WellKnownPath, MissingPath}

NoType == "<absent>"
FileScopes == {"file-scope"}
FileSubject == "file-subject"

Text(json, type, keys, p12, declares) ==
  [json |-> json, type |-> type, keys |-> keys, p12Ok |-> p12,
   scopes |-> IF declares THEN Some(FileScopes) ELSE NullOpt,
   subject |-> IF declares THEN Some(FileSubject) ELSE NullOpt]

EmptyText == Text(FALSE, NoType, "none", FALSE, FALSE)

Contents ==
  { Text(FALSE, NoType, "none", TRUE, TRUE),
    Text(FALSE, NoType, "none", FALSE, FALSE),
    Text(TRUE, "authorized_user", "au", FALSE, FALSE),
    Text(TRUE, "authorized_user", "none", FALSE, FALSE),
    Text(TRUE, "service_account", "sa", FALSE, TRUE),
    Text(TRUE, "service_account", "sa", FALSE, FALSE),
    Text(TRUE, "service_account", "none", FALSE, FALSE),
    Text(TRUE, "external_account", "sa", FALSE, FALSE),
    Text(TRUE, NoType, "sa", FALSE, FALSE) }

NoFile == [exists |-> FALSE, readable |-> FALSE, text |-> EmptyText]
Files ==
  {NoFile, [exists |-> TRUE, readable |-> FALSE, text |-> EmptyText]}
  \cup {[exists |-> TRUE, readable |-> TRUE, text |-> t] : t \in Contents}

Envs ==
  [envVar : {NullOpt, Some(""), Some(EnvPath)},
   wellKnown : {"", WellKnownPath},
   envFile : Files,
   wkFile : Files,
   onGce : BOOLEAN]

FileAt(e, path) ==
  IF path = EnvPath THEN e.envFile
  ELSE IF path = WellKnownPath THEN e.wkFile
  ELSE NoFile

\* std::ifstream ifs(path); ifs.is_open()
IsOpen(e, path) == FileAt(e, path).exists /\ FileAt(e, path).readable

\* std::string contents(std::istreambuf_iterator<char>{ifs}, {}): a stream
\* that failed to open yields the empty string.
ReadContents(e, path) ==
  IF IsOpen(e, path) THEN FileAt(e, path).text ELSE EmptyText

(***************************************************************************)
(* Collaborators declared in headers of the library whose bodies are not   *)
(* part of these sources.                                                  *)
(***************************************************************************)
\* The environment variable, or "" when it is unset or empty.
GoogleAdcFilePathFromEnvVarOrEmpty(e) ==
  IF HasValue(e.envVar) THEN e.envVar[1] ELSE ""

\* The per-user gcloud ADC path, or "" when it cannot be built.
GoogleAdcFilePathFromWellKnownPathOrEmpty(e) == e.wellKnown

\* google::cloud::internal::exists(status(path, ec))
Exists(e, path) == FileAt(e, path).exists

\* storage::internal::RunningOnComputeEngineVm()
RunningOnComputeEngineVm(e) == e.onGce

Info(backend, source, text) ==
  [backend |-> backend, source |-> source,
   scopes |-> text.scopes, subject |-> text.subject]

ParseServiceAccountP12File(e, path) ==
  IF IsOpen(e, path) /\ ~FileAt(e, path).text.json /\ FileAt(e, path).text.p12Ok
  THEN OkOf(Info("p12", path, FileAt(e, path).text))
  ELSE ErrorOf("kInvalidArgument", "error in PKCS#12 " \o path)

ParseServiceAccountCredentials(contents, source) ==
  IF contents.json /\ contents.keys = "sa"
  THEN OkOf(Info("service_account", source, contents))
  ELSE ErrorOf("kInvalidArgument",
               "Invalid ServiceAccountCredentials, parsing " \o source)

ParseAuthorizedUserCredentials(contents, source) ==
  IF contents.json /\ contents.keys = "au"
  THEN OkOf(Info("authorized_user", source, contents))
  ELSE ErrorOf("kInvalidArgument",
               "Invalid AuthorizedUserCredentials, parsing " \o source)

(***************************************************************************)
(* info->subject = std::move(subject); info->scopes = std::move(scopes);   *)
(***************************************************************************)
KeepFileValues(info, scopes, subject) ==
  [info EXCEPT !.subject = IF HasValue(info.subject) THEN @ ELSE subject,
               !.scopes = IF HasValue(info.scopes) THEN @ ELSE scopes]

ApplyOverrides(info, scopes, subject) ==
  [info EXCEPT !.subject = subject, !.scopes = scopes]

\* cred_json.value("type", "no type given")
CredType(contents) ==
  IF contents.type = NoType THEN "no type given" ELSE contents.type

UnsupportedTypeMessage(cred_type, path) ==
  "Unsupported credential type (" \o cred_type \o
  ") when reading Application Default Credentials file from " \o path \o "."

(***************************************************************************)
(* LoadCredsFromPath                                                       *)
(***************************************************************************)
LoadAuthorizedUser(e, path) ==
  LET info == ParseAuthorizedUserCredentials(ReadContents(e, path), path)
  IN IF ~info.ok THEN ErrorOf(info.code, info.message)
     ELSE OkOf(AuthorizedUserCredentials(info.value))

LoadServiceAccount(e, path, scopes, subject) ==
  LET info == ParseServiceAccountCredentials(ReadContents(e, path), path)
  IN IF ~info.ok THEN ErrorOf(info.code, info.message)
     ELSE OkOf(ServiceAccountCredentials(
                 ApplyOverrides(info.value, scopes, subject)))

LoadP12(e, path, scopes, subject) ==
  LET info == ParseServiceAccountP12File(e, path)
  IN IF ~info.ok
     THEN ErrorOf("kInvalidArgument", "Invalid credentials file " \o path)
     ELSE OkOf(ServiceAccountCredentials(
                 ApplyOverrides(info.value, scopes, subject)))

NeverWantsServiceAccount(scopes, subject) == FALSE

\* Whether an authorized_user file is answered with the null-pointer
\* success instead of being parsed (only asked once the outer test
\* cred_type == "authorized_user" && non_service_account_ok has passed).
WantsServiceAccount(scopes, subject) ==
  HasValue(scopes) \/ HasValue(subject)

LoadCredsFromPath(e, path, nsaOk, scopes, subject) ==
  LET contents == ReadContents(e, path)
      cred_type == CredType(contents)
  IN IF ~IsOpen(e, path)
     THEN ErrorOf("kUnknown", "Cannot open credentials file " \o path)
     ELSE IF ~contents.json
     THEN LoadP12(e, path, scopes, subject)
     ELSE IF cred_type = "authorized_user" /\ nsaOk
     THEN (IF WantsServiceAccount(scopes, subject)
           THEN OkOf(NullPtr)
           ELSE LoadAuthorizedUser(e, path))
     ELSE IF cred_type = "service_account"
     THEN LoadServiceAccount(e, path, scopes, subject)
     ELSE ErrorOf("kInvalidArgument", UnsupportedTypeMessage(cred_type, path))

(***************************************************************************)
(* MaybeLoadCredsFromAdcPaths.  Returns the StatusOr (res) together with   *)
(* the collaborators it consulted, in call order (log).                    *)
(***************************************************************************)
Call(name, path) == [call |-> name, path |-> path]

EnvVarCall == Call("GoogleAdcFilePathFromEnvVarOrEmpty", "")
WellKnownCall == Call("GoogleAdcFilePathFromWellKnownPathOrEmpty", "")
ProbeCall == Call("RunningOnComputeEngineVm", "")

\* A resolver that treats a failure of the explicitly named file as
\* absence and moves on to the well-known path.
MaybeLoadFallingThrough(e, nsaOk, scopes, subject) ==
  LET envPath == GoogleAdcFilePathFromEnvVarOrEmpty(e)
      wkPath == GoogleAdcFilePathFromWellKnownPathOrEmpty(e)
      first == LoadCredsFromPath(e, envPath, nsaOk, scopes, subject)
      l1 == IF envPath # ""
            THEN <<EnvVarCall, Call("LoadCredsFromPath", envPath)>>
            ELSE <<EnvVarCall>>
      l2 == l1 \o <<WellKnownCall>>
      l3 == l2 \o <<Call("status", wkPath)>>
  IN IF envPath # "" /\ first.ok
     THEN [res |-> first, log |-> l1]
     ELSE IF wkPath = ""
     THEN [res |-> OkOf(NullPtr), log |-> l2]
     ELSE IF ~Exists(e, wkPath)
     THEN [res |-> OkOf(NullPtr), log |-> l3]
     ELSE [res |-> LoadCredsFromPath(e, wkPath, nsaOk, scopes, subject),
           log |-> l3 \o <<Call("LoadCredsFromPath", wkPath)>>]

MaybeLoadCredsFromAdcPaths(e, nsaOk, scopes, subject) ==
  LET envPath == GoogleAdcFilePathFromEnvVarOrEmpty(e)
      wkPath == GoogleAdcFilePathFromWellKnownPathOrEmpty(e)
      l1 == <<EnvVarCall>>
      l2 == l1 \o <<WellKnownCall>>
      l3 == l2 \o <<Call("status", wkPath)>>
  IN IF envPath # ""
     THEN [res |-> LoadCredsFromPath(e, envPath, nsaOk, scopes, subject),
           log |-> l1 \o <<Call("LoadCredsFromPath", envPath)>>]
     ELSE IF wkPath = ""
     THEN [res |-> OkOf(NullPtr), log |-> l2]
     ELSE IF ~Exists(e, wkPath)
     THEN [res |-> OkOf(NullPtr), log |-> l3]
     ELSE [res |-> LoadCredsFromPath(e, wkPath, nsaOk, scopes, subject),
           log |-> l3 \o <<Call("LoadCredsFromPath", wkPath)>>]

NoCredentialsMessage ==
  "Could not automatically determine credentials. For more information, please see "
  \o kAdcLink

NoServiceAccountMessage ==
  "Could not create service account credentials using Application"
  \o "Default Credentials paths. For more information, please see " \o kAdcLink

(***************************************************************************)
(* GoogleDefaultCredentials                                                *)
(***************************************************************************)
\* A resolver that probes the metadata service before looking at the
\* status of steps 1-2.
GoogleDefaultCredentialsProbingFirst(e) ==
  LET creds == MaybeLoadCredsFromAdcPaths(e, TRUE, NullOpt, NullOpt)
  IN IF IsCredential(creds.res)
     THEN [res |-> OkOf(creds.res.value), log |-> creds.log]
     ELSE IF RunningOnComputeEngineVm(e)
     THEN [res |-> OkOf(ComputeEngineCredentials),
           log |-> creds.log \o <<ProbeCall>>]
     ELSE IF ~creds.res.ok
     THEN [res |-> ErrorOf(creds.res.code, creds.res.message),
           log |-> creds.log \o <<ProbeCall>>]
     ELSE [res |-> ErrorOf("kUnknown", NoCredentialsMessage),
           log |-> creds.log \o <<ProbeCall>>]

\* A resolver that answers every failure with the terminal error.
GoogleDefaultCredentialsMaskingErrors(e) ==
  LET creds == MaybeLoadCredsFromAdcPaths(e, TRUE, NullOpt, NullOpt)
  IN IF ~creds.res.ok
     THEN [res |-> ErrorOf("kUnknown", NoCredentialsMessage), log |-> creds.log]
     ELSE IF creds.res.value # NullPtr
     THEN [res |-> OkOf(creds.res.value), log |-> creds.log]
     ELSE IF RunningOnComputeEngineVm(e)
     THEN [res |-> OkOf(ComputeEngineCredentials),
           log |-> creds.log \o <<ProbeCall>>]
     ELSE [res |-> ErrorOf("kUnknown", NoCredentialsMessage),
           log |-> creds.log \o <<ProbeCall>>]

GoogleDefaultCredentials(e) ==
  LET creds == MaybeLoadCredsFromAdcPaths(e, TRUE, NullOpt, NullOpt)
  IN IF ~creds.res.ok
     THEN [res |-> ErrorOf(creds.res.code, creds.res.message), log |-> creds.log]
     ELSE IF creds.res.value # NullPtr
     THEN [res |-> OkOf(creds.res.value), log |-> creds.log]
     ELSE IF RunningOnComputeEngineVm(e)
     THEN [res |-> OkOf(ComputeEngineCredentials),
           log |-> creds.log \o <<ProbeCall>>]
     ELSE [res |-> ErrorOf("kUnknown", NoCredentialsMessage),
           log |-> creds.log \o <<ProbeCall>>]

(***************************************************************************)
(* CreateServiceAccountCredentialsFromDefaultPaths(scopes, subject)        *)
(***************************************************************************)
\* A service-account-only resolver that runs step 3 like the general one.
ServiceAccountFromDefaultPathsWithProbe(e, scopes, subject) ==
  LET creds == MaybeLoadCredsFromAdcPaths(e, FALSE, scopes, subject)
  IN IF ~creds.res.ok
     THEN [res |-> ErrorOf(creds.res.code, creds.res.message), log |-> creds.log]
     ELSE IF creds.res.value # NullPtr
     THEN [res |-> OkOf(creds.res.value), log |-> creds.log]
     ELSE IF RunningOnComputeEngineVm(e)
     THEN [res |-> OkOf(ComputeEngineCredentials),
           log |-> creds.log \o <<ProbeCall>>]
     ELSE [res |-> ErrorOf("kUnknown", NoServiceAccountMessage),
           log |-> creds.log \o <<ProbeCall>>]

\* A service-account-only resolver that hands on whatever success steps
\* 1-2 returned, the null pointer included.
ServiceAccountFromDefaultPathsForwardingNull(e, scopes, subject) ==
  LET creds == MaybeLoadCredsFromAdcPaths(e, FALSE, scopes, subject)
  IN IF ~creds.res.ok
     THEN [res |-> ErrorOf(creds.res.code, creds.res.message), log |-> creds.log]
     ELSE [res |-> OkOf(creds.res.value), log |-> creds.log]

CreateServiceAccountCredentialsFromDefaultPaths(e, scopes, subject) ==
  LET creds == MaybeLoadCredsFromAdcPaths(e, FALSE, scopes, subject)
  IN IF ~creds.res.ok
     THEN [res |-> ErrorOf(creds.res.code, creds.res.message), log |-> creds.log]
     ELSE IF creds.res.value # NullPtr
     THEN [res |-> OkOf(creds.res.value), log |-> creds.log]
     ELSE [res |-> ErrorOf("kUnknown", NoServiceAccountMessage), log |-> creds.log]

(***************************************************************************)
(* The direct factories.                                                   *)
(***************************************************************************)
CreateAuthorizedUserCredentialsFromJsonFilePath(e, path) ==
  LET info == ParseAuthorizedUserCredentials(ReadContents(e, path), path)
  IN IF ~info.ok THEN ErrorOf(info.code, info.message)
     ELSE OkOf(AuthorizedUserCredentials(info.value))

CreateAuthorizedUserCredentialsFromJsonContents(contents) ==
  LET info == ParseAuthorizedUserCredentials(contents, "memory")
  IN IF ~info.ok THEN ErrorOf(info.code, info.message)
     ELSE OkOf(AuthorizedUserCredentials(info.value))

CreateServiceAccountCredentialsFromJsonFilePath(e, path, scopes, subject) ==
  LET info == ParseServiceAccountCredentials(ReadContents(e, path), path)
  IN IF ~info.ok THEN ErrorOf(info.code, info.message)
     ELSE OkOf(ServiceAccountCredentials(
                 ApplyOverrides(info.value, scopes, subject)))

CreateServiceAccountCredentialsFromP12FilePath(e, path, scopes, subject) ==
  LET info == ParseServiceAccountP12File(e, path)
  IN IF ~info.ok THEN ErrorOf(info.code, info.message)
     ELSE OkOf(ServiceAccountCredentials(
                 ApplyOverrides(info.value, scopes, subject)))

CreateServiceAccountCredentialsFromFilePath(e, path, scopes, subject) ==
  LET credentials ==
        CreateServiceAccountCredentialsFromJsonFilePath(e, path, scopes, subject)
  IN IF credentials.ok THEN credentials
     ELSE CreateServiceAccountCredentialsFromP12FilePath(e, path, scopes, subject)

CreateServiceAccountCredentialsFromJsonContents(contents, scopes, subject) ==
  LET info == ParseServiceAccountCredentials(contents, "memory")
  IN IF ~info.ok THEN ErrorOf(info.code, info.message)
     ELSE OkOf(ServiceAccountCredentials(
                 ApplyOverrides(info.value, scopes, subject)))

(***************************************************************************)
(* Metadata-server responses.  A payload is the text the server sent.  The *)
(* JSON documents below are the ones the model's payloads can denote;      *)
(* Render writes a document as JSON text, and JsonParse is                 *)
(* nl::json::parse(text, nullptr, false): the document a text denotes, or  *)
(* the discarded value when the text is not JSON.                          *)
(***************************************************************************)
MaxTtl == 2
MaxNow == 2

Discarded == [discarded |-> TRUE]

Doc(at, ei, tt, em, sc) ==
  [discarded |-> FALSE, access_token |-> at, expires_in |-> ei,
   token_type |-> tt, email |-> em, scopes |-> sc]

\* A "scopes" member: a JSON array of strings, or a bare string.
ScopesArray(items) == [array |-> TRUE, items |-> items]
ScopesString(str) == [array |-> FALSE, items |-> <<str>>]

TokenDocs ==
  { Doc(at, ei, tt, NullOpt, NullOpt) :
      at \in {NullOpt, Some("ya29.c0ffee")},
      ei \in {NullOpt} \cup {Some(n) : n \in (0 - MaxTtl)..MaxTtl},
      tt \in {NullOpt, Some("Bearer")} }

MetadataDocs ==
  { Doc(NullOpt, NullOpt, NullOpt, em, sc) :
      em \in {NullOpt, Some("sa@developer.gserviceaccount.com")},
      sc \in {NullOpt, Some(ScopesString("scope-a")), Some(ScopesArray(<<>>)),
              Some(ScopesArray(<<"scope-a">>)),
              Some(ScopesArray(<<"scope-a", "scope-b">>)),
              Some(ScopesArray(<<"scope-a", "scope-a">>))} }

Docs == TokenDocs \cup MetadataDocs

Quote(str) == "\"" \o str \o "\""

RECURSIVE Join(_)
Join(parts) ==
  IF Len(parts) = 0 THEN ""
  ELSE IF Len(parts) = 1 THEN parts[1]
  ELSE parts[1] \o "," \o Join(Tail(parts))

RenderScopes(sc) ==
  IF sc.array
  THEN "[" \o Join([i \in 1..Len(sc.items) |-> Quote(sc.items[i])]) \o "]"
  ELSE Quote(sc.items[1])

Member(key, o, text) ==
  IF HasValue(o) THEN <<Quote(key) \o ":" \o text>> ELSE <<>>

Render(d) ==
  "{" \o
  Join(Member("access_token", d.access_token,
              IF HasValue(d.access_token) THEN Quote(d.access_token[1]) ELSE "")
       \o Member("expires_in", d.expires_in,
                 IF HasValue(d.expires_in) THEN ToString(d.expires_in[1]) ELSE "")
       \o Member("token_type", d.token_type,
                 IF HasValue(d.token_type) THEN Quote(d.token_type[1]) ELSE "")
       \o Member("email", d.email,
                 IF HasValue(d.email) THEN Quote(d.email[1]) ELSE "")
       \o Member("scopes", d.scopes,
                 IF HasValue(d.scopes) THEN RenderScopes(d.scopes[1]) ELSE ""))
  \o "}"

NotJson == {"", "<html>503 Service Unavailable</html>", "{\"access_token\":"}

Payloads == {Render(d) : d \in Docs} \cup NotJson

JsonParse(text) ==
  IF \E d \in Docs : Render(d) = text
  THEN CHOOSE d \in Docs : Render(d) = text
  ELSE Discarded

\* json::count(key)
Count(body, key) ==
  IF key = "access_token" THEN (IF HasValue(body.access_token) THEN 1 ELSE 0)
  ELSE IF key = "expires_in" THEN (IF HasValue(body.expires_in) THEN 1 ELSE 0)
  ELSE IF key = "token_type" THEN (IF HasValue(body.token_type) THEN 1 ELSE 0)
  ELSE IF key = "email" THEN (IF HasValue(body.email) THEN 1 ELSE 0)
  ELSE (IF HasValue(body.scopes) THEN 1 ELSE 0)

StatusCodes == {200, 404, 503}

HttpResponse(status_code, payload) ==
  [status_code |-> status_code, payload |-> payload]

Responses == {HttpResponse(c, p) : c \in StatusCodes, p \in Payloads}

\* AsStatus(HttpResponse): a classified error whose message is the
\* response's payload.
AsStatus(response) == ErrorOf("MalformedServerResponse", response.payload)

MetadataFieldsMessage ==
  "Could not find all required fields in response (email, scopes)."

TokenFieldsMessage ==
  "Could not find all required fields in response (access_token,"
  \o " expires_in, token_type)."

\* std::set<std::string> built from a JSON array of strings
SetOf(items) == {items[i] : i \in 1..Len(items)}

(***************************************************************************)
(* ParseMetadataServerResponse                                             *)
(***************************************************************************)
ParseMetadataServerResponse(response) ==
  LET response_body == JsonParse(response.payload)
  IN IF response_body.discarded
        \/ Count(response_body, "email") = 0
        \/ Count(response_body, "scopes") = 0
     THEN AsStatus(HttpResponse(response.status_code,
                                response.payload \o MetadataFieldsMessage))
     ELSE OkOf([email |-> response_body.email[1],
                scopes |-> IF response_body.scopes[1].array
                           THEN SetOf(response_body.scopes[1].items)
                           ELSE {response_body.scopes[1].items[1]}])

(***************************************************************************)
(* ParseComputeEngineRefreshResponse                                       *)
(***************************************************************************)
\* The parser with the payload left out of the error it reports.
RefreshParseDroppingPayload(response, now) ==
  LET access_token == JsonParse(response.payload)
  IN IF access_token.discarded
        \/ Count(access_token, "access_token") = 0
        \/ Count(access_token, "expires_in") = 0
        \/ Count(access_token, "token_type") = 0
     THEN AsStatus(HttpResponse(response.status_code, TokenFieldsMessage))
     ELSE OkOf([token |-> "Authorization: " \o access_token.token_type[1]
                          \o " " \o access_token.access_token[1],
                expiration |-> now + access_token.expires_in[1]])

\* The parser refusing every response whose status code is not 200.
RefreshParseCheckingStatus(response, now) ==
  LET access_token == JsonParse(response.payload)
  IN IF access_token.discarded
        \/ response.status_code # 200
        \/ Count(access_token, "access_token") = 0
        \/ Count(access_token, "expires_in") = 0
        \/ Count(access_token, "token_type") = 0
     THEN AsStatus(HttpResponse(response.status_code,
                                response.payload \o TokenFieldsMessage))
     ELSE OkOf([token |-> "Authorization: " \o access_token.token_type[1]
                          \o " " \o access_token.access_token[1],
                expiration |-> now + access_token.expires_in[1]])

ParseComputeEngineRefreshResponse(response, now) ==
  LET access_token == JsonParse(response.payload)
  IN IF access_token.discarded
        \/ Count(access_token, "access_token") = 0
        \/ Count(access_token, "expires_in") = 0
        \/ Count(access_token, "token_type") = 0
     THEN AsStatus(HttpResponse(response.status_code,
                                response.payload \o TokenFieldsMessage))
     ELSE OkOf([token |-> "Authorization: " \o access_token.token_type[1]
                          \o " " \o access_token.access_token[1],
                expiration |-> now + access_token.expires_in[1]])

(***************************************************************************)
(* The resolver as a state machine: the environment is fixed when the      *)
(* process starts, and every step is one call of a factory.                *)
(***************************************************************************)
ScopeOverrides == {NullOpt, Some({}), Some({"https://www.googleapis.com/auth/devstorage.read_only"})}
SubjectOverrides == {NullOpt, Some("user@example.com")}

Args(path, nsaOk, scopes, subject) ==
  [path |-> path, nsaOk |-> nsaOk, scopes |-> scopes, subject |-> subject]

NoArgs == Args("", TRUE, NullOpt, NullOpt)

\* No credential object is in use: its token cache plays no part.
NoCache ==
  [token |-> NullOpt, inflight |-> FALSE, since |-> 0, refreshes |-> 0,
   completed |-> 0]

Init ==
  /\ env \in Envs
  /\ op = "none"
  /\ args = NoArgs
  /\ result = NoResult
  /\ log = <<>>
  /\ cache = NoCache

Returns(name, a, r, l) ==
  /\ op' = name
  /\ args' = a
  /\ result' = r
  /\ log' = l
  /\ UNCHANGED <<env, cache>>

CallGoogleDefaultCredentials ==
  /\ op = "none"
  /\ LET r == GoogleDefaultCredentials(env)
     IN Returns("GoogleDefaultCredentials", NoArgs, r.res, r.log)

CallCreateServiceAccountCredentialsFromDefaultPaths ==
  /\ op = "none"
  /\ \E scopes \in ScopeOverrides, subject \in SubjectOverrides :
       LET r == CreateServiceAccountCredentialsFromDefaultPaths(env, scopes, subject)
       IN Returns("CreateServiceAccountCredentialsFromDefaultPaths",
                  Args("", FALSE, scopes, subject), r.res, r.log)

CallMaybeLoadCredsFromAdcPaths ==
  /\ op = "none"
  /\ \E nsaOk \in BOOLEAN, scopes \in ScopeOverrides, subject \in SubjectOverrides :
       LET r == MaybeLoadCredsFromAdcPaths(env, nsaOk, scopes, subject)
       IN Returns("MaybeLoadCredsFromAdcPaths",
                  Args("", nsaOk, scopes, subject), r.res, r.log)

CallLoadCredsFromPath ==
  /\ op = "none"
  /\ \E path \in Paths, nsaOk \in BOOLEAN,
        scopes \in ScopeOverrides, subject \in SubjectOverrides :
       Returns("LoadCredsFromPath", Args(path, nsaOk, scopes, subject),
               LoadCredsFromPath(env, path, nsaOk, scopes, subject),
               <<Call("LoadCredsFromPath", path)>>)

CallCreateAuthorizedUserCredentialsFromJsonFilePath ==
  /\ op = "none"
  /\ \E path \in Paths :
       Returns("CreateAuthorizedUserCredentialsFromJsonFilePath",
               Args(path, TRUE, NullOpt, NullOpt),
               CreateAuthorizedUserCredentialsFromJsonFilePath(env, path), <<>>)

CallCreateAuthorizedUserCredentialsFromJsonContents ==
  /\ op = "none"
  /\ \E path \in Paths :
       Returns("CreateAuthorizedUserCredentialsFromJsonContents",
               Args("memory", TRUE, NullOpt, NullOpt),
               CreateAuthorizedUserCredentialsFromJsonContents(
                 ReadContents(env, path)), <<>>)

CallCreateServiceAccountCredentialsFromFilePath ==
  /\ op = "none"
  /\ \E path \in Paths, scopes \in ScopeOverrides, subject \in SubjectOverrides :
       Returns("CreateServiceAccountCredentialsFromFilePath",
               Args(path, FALSE, scopes, subject),
               CreateServiceAccountCredentialsFromFilePath(env, path, scopes, subject),
               <<>>)

CallCreateServiceAccountCredentialsFromJsonFilePath ==
  /\ op = "none"
  /\ \E path \in Paths, scopes \in ScopeOverrides, subject \in SubjectOverrides :
       Returns("CreateServiceAccountCredentialsFromJsonFilePath",
               Args(path, FALSE, scopes, subject),
               CreateServiceAccountCredentialsFromJsonFilePath(env, path, scopes, subject),
               <<>>)

CallCreateServiceAccountCredentialsFromP12FilePath ==
  /\ op = "none"
  /\ \E path \in Paths, scopes \in ScopeOverrides, subject \in SubjectOverrides :
       Returns("CreateServiceAccountCredentialsFromP12FilePath",
               Args(path, FALSE, scopes, subject),
               CreateServiceAccountCredentialsFromP12FilePath(env, path, scopes, subject),
               <<>>)

CallCreateServiceAccountCredentialsFromJsonContents ==
  /\ op = "none"
  /\ \E path \in Paths, scopes \in ScopeOverrides, subject \in SubjectOverrides :
       Returns("CreateServiceAccountCredentialsFromJsonContents",
               Args("memory", FALSE, scopes, subject),
               CreateServiceAccountCredentialsFromJsonContents(
                 ReadContents(env, path), scopes, subject),
               <<>>)

\* The call has returned; the process is ready for the next one.
Done ==
  /\ op # "none"
  /\ op' = "none"
  /\ args' = NoArgs
  /\ result' = NoResult
  /\ log' = <<>>
  /\ UNCHANGED <<env, cache>>

Next ==
  \/ CallGoogleDefaultCredentials
  \/ CallCreateServiceAccountCredentialsFromDefaultPaths
  \/ CallMaybeLoadCredsFromAdcPaths
  \/ CallLoadCredsFromPath
  \/ CallCreateAuthorizedUserCredentialsFromJsonFilePath
  \/ CallCreateAuthorizedUserCredentialsFromJsonContents
  \/ CallCreateServiceAccountCredentialsFromFilePath
  \/ CallCreateServiceAccountCredentialsFromJsonFilePath
  \/ CallCreateServiceAccountCredentialsFromP12FilePath
  \/ CallCreateServiceAccountCredentialsFromJsonContents
  \/ Done

Spec == Init /\ [][Next]_vars

(***************************************************************************)
(* The response parsers as a state machine: a response arrives from the    *)
(* metadata server at some time, and one of the two parsers is applied.    *)
(***************************************************************************)
Times == 0..MaxNow

Arrival(response, now) == [response |-> response, now |-> now]

QuietEnv ==
  [envVar |-> NullOpt, wellKnown |-> "", envFile |-> NoFile, wkFile |-> NoFile,
   onGce |-> TRUE]

ParseInit ==
  /\ env = QuietEnv
  /\ op = "none"
  /\ args \in {Arrival(r, t) : r \in Responses, t \in Times}
  /\ result = NoResult
  /\ log = <<>>
  /\ cache = NoCache

Receive ==
  /\ op # "none"
  /\ \E r \in Responses, t \in Times : args' = Arrival(r, t)
  /\ op' = "none"
  /\ result' = NoResult
  /\ UNCHANGED <<env, log, cache>>

CallParseMetadataServerResponse ==
  /\ op = "none"
  /\ op' = "ParseMetadataServerResponse"
  /\ result' = ParseMetadataServerResponse(args.response)
  /\ UNCHANGED <<env, args, log, cache>>

CallParseComputeEngineRefreshResponse ==
  /\ op = "none"
  /\ op' = "ParseComputeEngineRefreshResponse"
  /\ result' = ParseComputeEngineRefreshResponse(args.response, args.now)
  /\ UNCHANGED <<env, args, log, cache>>

ParseNext ==
  \/ Receive
  \/ CallParseMetadataServerResponse
  \/ CallParseComputeEngineRefreshResponse

ParseSpec == ParseInit /\ [][ParseNext]_vars

(***************************************************************************)
(* The refreshing token cache of one credential instance, used by          *)
(* NumCallers threads.  Each thread asks once for the authorization        *)
(* header.  A thread that finds the cached token missing or expired starts *)
(* the refresh unless one is in flight, in which case it waits for that    *)
(* refresh and takes its outcome.  The refresh is the metadata-server      *)
(* request whose response ParseComputeEngineRefreshResponse interprets.    *)
(*                                                                         *)
(* Here env is the clock, op the position of each thread, args what each   *)
(* thread saw when it asked, result what each thread was given, and log    *)
(* the outcomes of the refreshes in completion order.                      *)
(***************************************************************************)
NumCallers == 3

Callers == 1..NumCallers

\* Valid: a cached token with expiration > now.  Empty or Stale otherwise.
IsValid(token, now) == HasValue(token) /\ token[1].expiration > now

CachedTokens ==
  {NullOpt} \cup
  {Some([token |-> "Authorization: Bearer cached", expiration |-> t]) : t \in Times}

\* What AuthorizationHeader returns for the outcome of a refresh.
HeaderOf(outcome) ==
  IF outcome.ok THEN OkOf(outcome.value.token)
  ELSE ErrorOf(outcome.code, outcome.message)

\* The outcomes a refresh can have at time now: the transport fails, or a
\* response arrives and is parsed.
\* The responses the token endpoint is seen to give: a token that lives
\* MaxTtl seconds, a token that is already expired, and a document without
\* expires_in.
RefreshResponses ==
  {HttpResponse(200, Render(Doc(Some("ya29.c0ffee"), ei, Some("Bearer"),
                                NullOpt, NullOpt))) :
     ei \in {Some(MaxTtl), Some(0), NullOpt}}

\* The outcomes a refresh can have at each time: the transport fails, or a
\* response arrives and is parsed.
RefreshOutcomes ==
  [now \in Times |->
     {ErrorOf("NetworkOrTransportFailure", "Couldn't connect to server")}
     \cup {ParseComputeEngineRefreshResponse(r, now) : r \in RefreshResponses}]

Asked(epoch, sawValid) == [epoch |-> epoch, sawValid |-> sawValid]

RefreshInit ==
  /\ env = [now |-> 0]
  /\ op = [c \in Callers |-> "idle"]
  /\ args = [c \in Callers |-> Asked(0, FALSE)]
  /\ result = [c \in Callers |-> NoResult]
  /\ log = <<>>
  /\ \E t \in CachedTokens : cache = [NoCache EXCEPT !.token = t]

Tick ==
  /\ env.now < MaxNow
  /\ env' = [now |-> env.now + 1]
  /\ UNCHANGED <<op, args, result, log, cache>>

\* A thread that needs a fresh token starts no refresh of its own.
NeverJoins == FALSE

\* A thread that needs a fresh token joins the refresh in flight.
JoinsInFlight == cache.inflight

ServeCached(c) ==
  /\ op[c] = "idle"
  /\ IsValid(cache.token, env.now)
  /\ op' = [op EXCEPT ![c] = "done"]
  /\ args' = [args EXCEPT ![c] = Asked(cache.completed, TRUE)]
  /\ result' = [result EXCEPT ![c] = OkOf(cache.token[1].token)]
  /\ UNCHANGED <<env, log, cache>>

StartRefresh(c) ==
  /\ op[c] = "idle"
  /\ ~IsValid(cache.token, env.now)
  /\ ~JoinsInFlight
  /\ op' = [op EXCEPT ![c] = "refreshing"]
  /\ args' = [args EXCEPT ![c] = Asked(cache.completed, FALSE)]
  /\ cache' = [cache EXCEPT !.inflight = TRUE, !.since = env.now,
                            !.refreshes = @ + 1]
  /\ UNCHANGED <<env, result, log>>

AwaitRefresh(c) ==
  /\ op[c] = "idle"
  /\ ~IsValid(cache.token, env.now)
  /\ JoinsInFlight
  /\ op' = [op EXCEPT ![c] = "waiting"]
  /\ args' = [args EXCEPT ![c] = Asked(cache.completed, FALSE)]
  /\ UNCHANGED <<env, result, log, cache>>

\* The refresh started by thread c ends: on success the token is replaced
\* as a whole, on failure the cache keeps what it held; c and every thread
\* waiting on the refresh are given its outcome.
CompleteRefresh(c) ==
  /\ op[c] = "refreshing"
  /\ \E outcome \in RefreshOutcomes[cache.since] :
       /\ cache' = [cache EXCEPT
                      !.token = IF outcome.ok THEN Some(outcome.value) ELSE @,
                      !.inflight = FALSE,
                      !.completed = @ + 1]
       /\ log' = Append(log, outcome)
       /\ result' = [d \in Callers |->
                       IF d = c \/ op[d] = "waiting" THEN HeaderOf(outcome)
                       ELSE result[d]]
  /\ op' = [d \in Callers |->
              IF d = c \/ op[d] = "waiting" THEN "done" ELSE op[d]]
  /\ UNCHANGED <<env, args>>

RefreshNext ==
  \/ Tick
  \/ \E c \in Callers : ServeCached(c)
  \/ \E c \in Callers : StartRefresh(c)
  \/ \E c \in Callers : AwaitRefresh(c)
  \/ \E c \in Callers : CompleteRefresh(c)

RefreshSpec == RefreshInit /\ [][RefreshNext]_vars

(***************************************************************************)
(* Properties of the resolver, checked under Spec.                         *)
(***************************************************************************)
Consulted(name) == \E i \in 1..Len(log) : log[i].call = name

ProbeRan == Consulted("RunningOnComputeEngineVm")

EnvPathGiven == GoogleAdcFilePathFromEnvVarOrEmpty(env) # ""

IsResolverCall ==
  op \in {"GoogleDefaultCredentials",
          "CreateServiceAccountCredentialsFromDefaultPaths"}

\* The file cannot be opened, cannot be parsed, or names no supported
\* credential type.
OpenParseOrClassifyFails(f) ==
  \/ ~f.exists
  \/ ~f.readable
  \/ ~f.text.json /\ ~f.text.p12Ok
  \/ f.text.json /\ f.text.type \notin {"authorized_user", "service_account"}
  \/ f.text.json /\ f.text.type = "authorized_user" /\ f.text.keys # "au"
  \/ f.text.json /\ f.text.type = "service_account" /\ f.text.keys # "sa"

\* C1: in GoogleDefaultCredentials and
\* CreateServiceAccountCredentialsFromDefaultPaths, when the environment
\* variable yields a non-empty path, every failure to open, parse or
\* classify that file is returned as an error, the result is never the
\* null-pointer success, and neither the well-known path nor the status of
\* a file there nor the compute-engine probe is consulted.
C1_EnvFileFailureIsHard ==
  (IsResolverCall /\ EnvPathGiven) =>
    /\ OpenParseOrClassifyFails(env.envFile) => IsError(result)
    /\ ~IsSentinel(result)
    /\ ~Consulted("GoogleAdcFilePathFromWellKnownPathOrEmpty")
    /\ ~Consulted("status")
    /\ ~ProbeRan
    /\ log = <<EnvVarCall, Call("LoadCredsFromPath", EnvPath)>>

\* The environment variable names a missing file while a good service
\* account file sits at the well-known path on a compute-engine VM, and the
\* general resolver has returned the hard error.
C1_Witness ==
  /\ op = "GoogleDefaultCredentials"
  /\ EnvPathGiven
  /\ ~env.envFile.exists
  /\ env.wellKnown = WellKnownPath
  /\ env.wkFile.readable /\ env.wkFile.text.keys = "sa"
  /\ env.wkFile.text.type = "service_account"
  /\ env.onGce
  /\ result = ErrorOf("kUnknown", "Cannot open credentials file " \o EnvPath)

IsLoadCall == op \in {"LoadCredsFromPath", "MaybeLoadCredsFromAdcPaths"}

\* The path the load has read: the argument of LoadCredsFromPath, or the
\* path MaybeLoadCredsFromAdcPaths handed to it ("" when it handed none).
LoadedPath ==
  IF op = "LoadCredsFromPath" THEN args.path
  ELSE IF Consulted("LoadCredsFromPath") THEN log[Len(log)].path
  ELSE ""

LoadedAuthorizedUserFile ==
  /\ IsLoadCall
  /\ LoadedPath # ""
  /\ IsOpen(env, LoadedPath)
  /\ FileAt(env, LoadedPath).text.json
  /\ FileAt(env, LoadedPath).text.type = "authorized_user"

OverrideSupplied == HasValue(args.scopes) \/ HasValue(args.subject)

StepsOneTwo == MaybeLoadCredsFromAdcPaths(env, TRUE, NullOpt, NullOpt).res

\* No file is named by the environment variable, and the well-known path
\* is empty, has no file, or holds a file answered with the sentinel.
NothingFound ==
  /\ ~EnvPathGiven
  /\ \/ env.wellKnown = ""
     \/ ~env.wkFile.exists
     \/ IsSentinel(LoadCredsFromPath(env, env.wellKnown, TRUE, NullOpt, NullOpt))

\* C3: GoogleDefaultCredentials probes the metadata service exactly when
\* steps 1-2 produced neither a credential nor an error; a probe that finds
\* compute engine always yields the compute-engine credential; a credential
\* from step 1 or 2 is returned without probing.
C3_ProbeExactlyWhenNothingFound ==
  op = "GoogleDefaultCredentials" =>
    /\ ProbeRan <=> NothingFound
    /\ ProbeRan <=> IsSentinel(StepsOneTwo)
    /\ (ProbeRan /\ env.onGce) => result = OkOf(ComputeEngineCredentials)
    /\ IsCredential(StepsOneTwo) => (result = StepsOneTwo /\ ~ProbeRan)

\* No usable file anywhere, a file-less well-known path, and the probe
\* found a compute-engine VM.
C3_Witness ==
  /\ op = "GoogleDefaultCredentials"
  /\ ~EnvPathGiven
  /\ env.wellKnown = WellKnownPath /\ ~env.wkFile.exists
  /\ env.onGce
  /\ ProbeRan
  /\ result = OkOf(ComputeEngineCredentials)

\* C4: GoogleDefaultCredentials returns the terminal "could not
\* automatically determine credentials" error, ending in the ADC link,
\* exactly when nothing was found by steps 1-2 and the probe says the
\* process is not on compute engine; otherwise it returns a credential or
\* the error of the step that failed.
C4_TerminalErrorExactlyWhenExhausted ==
  op = "GoogleDefaultCredentials" =>
    /\ result = ErrorOf("kUnknown", NoCredentialsMessage)
         <=> (NothingFound /\ ~env.onGce)
    /\ ~(NothingFound /\ ~env.onGce) =>
         \/ IsCredential(result)
         \/ IsError(StepsOneTwo) /\ result = StepsOneTwo
    /\ ~IsSentinel(result)

\* Nothing configured and no compute engine: the terminal error.
C4_Witness ==
  /\ op = "GoogleDefaultCredentials"
  /\ ~EnvPathGiven
  /\ env.wellKnown = WellKnownPath /\ ~env.wkFile.exists
  /\ ~env.onGce
  /\ result.code = "kUnknown"
  /\ result.message =
       "Could not automatically determine credentials. For more information, please see "
       \o kAdcLink

\* C5: CreateServiceAccountCredentialsFromDefaultPaths never probes the
\* metadata service and never returns a compute-engine credential; when
\* steps 1-2 find nothing it returns its terminal error.
C5_ServiceAccountOnlyNeverProbes ==
  op = "CreateServiceAccountCredentialsFromDefaultPaths" =>
    /\ ~ProbeRan
    /\ result.value # ComputeEngineCredentials
    /\ (~EnvPathGiven /\ (env.wellKnown = "" \/ ~env.wkFile.exists)) =>
         result = ErrorOf("kUnknown", NoServiceAccountMessage)
    /\ IsSentinel(MaybeLoadCredsFromAdcPaths(env, FALSE, args.scopes,
                                             args.subject).res) =>
         result = ErrorOf("kUnknown", NoServiceAccountMessage)

\* On a compute-engine VM with nothing configured, the service-account-only
\* resolver with a scopes override ended in its terminal error.
C5_Witness ==
  /\ op = "CreateServiceAccountCredentialsFromDefaultPaths"
  /\ ~EnvPathGiven
  /\ env.wellKnown = WellKnownPath /\ ~env.wkFile.exists
  /\ env.onGce
  /\ HasValue(args.scopes)
  /\ result = ErrorOf("kUnknown", NoServiceAccountMessage)

\* C10: every service-account credential a load or a factory returns
\* carries exactly the scopes and the subject the caller passed, whatever
\* the file declares.
C10_OverridesWin ==
  (result.ok /\ result.value.kind = "ServiceAccount") =>
    /\ result.value.info.scopes = args.scopes
    /\ result.value.info.subject = args.subject

\* A JSON service-account file that declares its own scopes and subject was
\* loaded with caller-supplied ones, and the credential holds the caller's.
C10_Witness ==
  /\ op = "CreateServiceAccountCredentialsFromJsonFilePath"
  /\ FileAt(env, args.path).text.scopes = Some(FileScopes)
  /\ FileAt(env, args.path).text.subject = Some(FileSubject)
  /\ HasValue(args.scopes) /\ args.scopes # Some(FileScopes)
  /\ HasValue(args.subject)
  /\ result.ok /\ result.value.kind = "ServiceAccount"
  /\ result.value.info.scopes = args.scopes
  /\ result.value.info.subject = args.subject

(***************************************************************************)
(* Properties of the response parsers, checked under ParseSpec.            *)
(***************************************************************************)
RefreshParsed == op = "ParseComputeEngineRefreshResponse"
MetadataParsed == op = "ParseMetadataServerResponse"

CompleteTokenDocs ==
  {d \in TokenDocs : HasValue(d.access_token) /\ HasValue(d.expires_in)
                     /\ HasValue(d.token_type)}

CompleteMetadataDocs ==
  {d \in MetadataDocs : HasValue(d.email) /\ HasValue(d.scopes)}

\* C6: a payload that is the JSON text of a document with access_token,
\* expires_in and token_type parses, under any HTTP status code, to the
\* header "Authorization: <token_type> <access_token>" and the expiration
\* now + expires_in.
C6_RefreshParseExact ==
  RefreshParsed =>
    \A d \in CompleteTokenDocs :
      args.response.payload = Render(d) =>
        /\ result.ok
        /\ result.value.token =
             "Authorization: " \o d.token_type[1] \o " " \o d.access_token[1]
        /\ result.value.expiration = args.now + d.expires_in[1]

\* A complete token document that came with status 404 at a time after the
\* epoch was parsed into a token.
C6_Witness ==
  /\ RefreshParsed
  /\ args.response.status_code = 404
  /\ args.now = 1
  /\ args.response.payload =
       "{\"access_token\":\"ya29.c0ffee\",\"expires_in\":2,\"token_type\":\"Bearer\"}"
  /\ result.ok
  /\ result.value = [token |-> "Authorization: Bearer ya29.c0ffee", expiration |-> 3]

\* The payload is not JSON, or is a JSON document without one of the
\* fields the parser that ran requires.
IncompleteFor(required) ==
  \/ args.response.payload \in NotJson
  \/ \E d \in Docs \ required : args.response.payload = Render(d)

C8_NeverBackdated ==
  (RefreshParsed /\ result.ok) =>
    /\ result.value.expiration =
         args.now + JsonParse(args.response.payload).expires_in[1]
    /\ result.value.expiration >= args.now

\* C9: every ServiceAccountMetadata a successful parse returns has a
\* non-empty set of scopes.
C9_ScopesNeverEmpty ==
  (MetadataParsed /\ result.ok) => result.value.scopes # {}

\* C12: GoogleDefaultCredentials and
\* CreateServiceAccountCredentialsFromDefaultPaths never return the
\* null-pointer success: in every environment and for every override the
\* result is an error status or a success holding a credential.
C12_SentinelNotSurfaced ==
  IsResolverCall =>
    /\ IsError(result) \/ IsCredential(result)
    /\ result.ok => result.value.kind \in
         {"ServiceAccount", "AuthorizedUser", "ComputeEngine"}

\* Steps 1-2 of the service-account-only resolver ended in the null-pointer
\* success (no environment variable, no well-known path could be built),
\* and the caller was handed an error.
C12_Witness ==
  /\ op = "CreateServiceAccountCredentialsFromDefaultPaths"
  /\ ~EnvPathGiven
  /\ env.wellKnown = ""
  /\ HasValue(args.subject)
  /\ IsSentinel(MaybeLoadCredsFromAdcPaths(env, FALSE, args.scopes,
                                           args.subject).res)
  /\ IsError(result)

(***************************************************************************)
(* Properties of the refreshing token cache, checked under RefreshSpec.    *)
(***************************************************************************)
\* Every thread has its answer, and every thread asked while the cached
\* token was missing or expired and before any refresh had completed.
AllAskedTogether ==
  \A c \in Callers :
    op[c] = "done" /\ ~args[c].sawValid /\ args[c].epoch = 0

\* C11: when all NumCallers threads ask for the header of one credential
\* while its token is missing or expired and no refresh has completed yet,
\* exactly one refresh is made and every thread is given the outcome of
\* that refresh: the same header, or the same error.
C11_SingleFlight ==
  AllAskedTogether =>
    /\ cache.refreshes = 1
    /\ Len(log) = 1
    /\ \A c \in Callers : result[c] = HeaderOf(log[1])

\* All threads asked together, one refresh was made, it failed because a
\* 200 response lacked expires_in, and every thread holds that error.
C11_Witness ==
  /\ AllAskedTogether
  /\ cache.refreshes = 1
  /\ Len(log) = 1
  /\ ~log[1].ok
  /\ log[1].message =
       "{\"access_token\":\"ya29.c0ffee\",\"token_type\":\"Bearer\"}"
       \o TokenFieldsMessage
  /\ \A c \in Callers : result[c] = ErrorOf(log[1].code, log[1].message)

====
